---- MODULE Spec2Model ----
(***************************************************************************)
(* Model of src/bot.py: the event store (EventStore), the derivation of    *)
(* timers from an event (schedule_event_jobs and its two helpers), the     *)
(* timer callbacks (daily_countdown, event_reminder), the two entry paths  *)
(* that create events (/add and the guided conversation) and the recovery  *)
(* pass run at start-up (reschedule_all_events).                           *)
(*                                                                         *)
(* Time is counted in minutes since 00:00 of day 0 (naive local time, as   *)
(* in the source).  Every value the code compares the clock against is a   *)
(* whole minute, so a clock value t of the model stands for every real     *)
(* instant in [t, t'), t' the next clock value of the run.                 *)
(***************************************************************************)
EXTENDS Integers, Sequences, FiniteSets, Bags, TLC

VARIABLES
    now,        \* datetime.now(), in minutes
    up,         \* TRUE while the process runs (its job queue exists)
    disk,       \* the file data/events.json
    tmp,        \* the file data/events.tmp
    jobs,       \* application.job_queue: a bag of jobs
    uuid,       \* number of ids uuid.uuid4() has handed out
    conv,       \* ConversationHandler state per (chat, user)
    user_data,  \* context.user_data["new_event_title"] per user
    sent,       \* bag of the messages context.bot.send_message delivered
    out,        \* what the step that ran last showed: its reply or message
    lock,       \* EventStore._lock: the task holding it, or NoTask
    task        \* the concurrent add_event calls of SpecStore

vars == <<now, up, disk, tmp, jobs, uuid, conv, user_data, sent, out, lock, task>>

----------------------------------------------------------------------------
(* Bounds of the model.                                                    *)

\* days 0..MaxDay can be entered as the date of an event
MaxDay == 0
\* number of events created in one run
MaxEvents == 2
\* number of concurrent add_event calls in SpecStore
NumTasks == 2
\* longest list of records under one key of a store file found at start-up
MaxRecords == 1

----------------------------------------------------------------------------
(* Program constants.                                                      *)

\* timedelta(days=1)
DAY == 1440
\* DAILY_REMINDER_TIME = time(hour=9, minute=0)
DAILY_REMINDER_TIME == 540
\* time(hour=9, minute=0) given to a date-only input
DEFAULT_TIME == 540
OffsetsWithoutZero == <<600, 300, 30, 5>>
\* REMINDER_OFFSETS, in minutes
REMINDER_OFFSETS == <<600, 300, 30, 5, 0>>
\* TITLE, DATE = range(2); ConversationHandler.END
TITLE == "TITLE"
DATE == "DATE"
END == "END"
\* context.user_data.get("new_event_title", <default title>)
DEFAULT_TITLE == "untitled"
NoTitle == "<unset>"

Users == {1, 2}
\* the users who take the guided conversation
Guided == {1}
Chats == {10}
\* the chats in which a user talks to the bot in the guided conversation
AllChats == {10, 11}

\* the clock stops at 09:00 of the day after the last day an event can have
MaxTime == (MaxDay + 1) * DAY + DAILY_REMINDER_TIME

----------------------------------------------------------------------------
(* datetime helpers.                                                       *)

\* datetime.date(): the day number
DateOf(t) == t \div DAY
\* datetime.combine(date, time)
Combine(d, tod) == d * DAY + tod

\* datetime.isoformat(): the text "YYYY-MM-DDTHH:MM:SS" as its fields
IsoFormat(t) ==
    [date |-> t \div DAY,
     hour |-> (t % DAY) \div 60,
     minute |-> t % 60]

\* datetime.fromisoformat()
FromIsoFormat(s) == s.date * DAY + s.hour * 60 + s.minute

\* str(user_id) for the user ids of the model
str(u) == CASE u = 1 -> "1" [] u = 2 -> "2" [] u = 3 -> "3" [] OTHER -> "?"

\* int(user_id_str): ok is FALSE where int() raises ValueError
int(s) ==
    CASE s = "1" -> [ok |-> TRUE, value |-> 1]
      [] s = "2" -> [ok |-> TRUE, value |-> 2]
      [] s = "3" -> [ok |-> TRUE, value |-> 3]
      [] OTHER -> [ok |-> FALSE, value |-> 0]

----------------------------------------------------------------------------
(* Event and its JSON form.                                                *)

Event(id, title, when, chat_id) ==
    [id |-> id, title |-> title, when |-> when, chat_id |-> chat_id]

to_dict(e) ==
    [id |-> e.id, title |-> e.title, when |-> IsoFormat(e.when), chat_id |-> e.chat_id]

from_dict(raw) ==
    Event(raw.id, raw.title, FromIsoFormat(raw.when), raw.chat_id)

----------------------------------------------------------------------------
(* Files.  A file is absent, holds a complete JSON document (raw), or      *)
(* holds the truncated text an interrupted json.dump leaves.               *)

EmptyDict == [k \in {} |-> <<>>]
Absent == [state |-> "absent", raw |-> EmptyDict]
Partial == [state |-> "partial", raw |-> EmptyDict]
Complete(raw) == [state |-> "complete", raw |-> raw]

\* datetime.fromisoformat raises ValueError on a text that is no date
IsoValid(s) == s.hour \in 0..23 /\ s.minute \in 0..59

\* Event.from_dict raises: KeyError on a missing key, ValueError on a bad date
FromDictRaises(raw) ==
    \/ ~({"id", "title", "when", "chat_id"} \subseteq DOMAIN raw)
    \/ ~IsoValid(raw.when)

\* the comprehension of _read gets through every record of the document
Loads(doc) ==
    \A k \in DOMAIN doc : \A i \in 1..Len(doc[k]) : ~FromDictRaises(doc[k][i])

\* EventStore._read: ok is FALSE where json.load or Event.from_dict raises
_read(file) ==
    IF file.state = "absent" THEN [ok |-> TRUE, data |-> EmptyDict]
    ELSE IF file.state = "partial" THEN [ok |-> FALSE, data |-> EmptyDict]
    ELSE IF ~Loads(file.raw) THEN [ok |-> FALSE, data |-> EmptyDict]
    ELSE [ok |-> TRUE,
          data |-> [k \in DOMAIN file.raw |->
                      [i \in 1..Len(file.raw[k]) |-> from_dict(file.raw[k][i])]]]

\* the document json.dump writes for data
Serialize(data) ==
    [k \in DOMAIN data |-> [i \in 1..Len(data[k]) |-> to_dict(data[k][i])]]

\* dict.get(key, [])
Get(data, key) == IF key \in DOMAIN data THEN data[key] ELSE <<>>

\* list.sort(key=lambda item: item.when): stable, ascending
RECURSIVE SortByWhen(_)
InsertLast(sorted, e) == Append(sorted, e)
Insert(sorted, e) ==
    LET k == Cardinality({i \in 1..Len(sorted) : sorted[i].when <= e.when})
    IN  SubSeq(sorted, 1, k) \o <<e>> \o SubSeq(sorted, k + 1, Len(sorted))
SortByWhen(s) ==
    IF s = <<>> THEN <<>>
    ELSE Insert(SortByWhen(SubSeq(s, 1, Len(s) - 1)), s[Len(s)])

IsSorted(s) == \A i \in 1..Len(s) - 1 : s[i].when <= s[i + 1].when

----------------------------------------------------------------------------
(* The job queue.  A job is a record: name, callback, next (its next run   *)
(* time), repeating, data.  The queue is a bag, so that two jobs with the  *)
(* same name and the same content are two jobs.                            *)

DailyName(user_id, id) == <<"daily", user_id, id>>
\* int(offset.total_seconds()) is the offset in seconds
ReminderName(user_id, id, offset) == <<"reminder", user_id, id, offset * 60>>

\* application.job_queue.get_jobs_by_name(name)
get_jobs_by_name(q, name) == {j \in BagToSet(q) : j.name = name}

RemoveNone(q, name) == q
\* remove_existing_jobs: job.schedule_removal() for every job of that name
remove_existing_jobs(q, name) ==
    LET keep == BagToSet(q) \ get_jobs_by_name(q, name)
    IN  [j \in keep |-> q[j]]

\* job_queue.run_repeating(daily_countdown, interval, first, name, data)
run_repeating(q, first, name, data) ==
    q (+) SetToBag({[name |-> name, callback |-> "daily_countdown",
                     next |-> first, repeating |-> TRUE, data |-> data]})

\* job_queue.run_once(event_reminder, when, name, data)
run_once(q, when, name, data) ==
    q (+) SetToBag({[name |-> name, callback |-> "event_reminder",
                     next |-> when, repeating |-> FALSE, data |-> data]})

FirstRunInclusive(t) ==
    LET today_target == Combine(DateOf(t), DAILY_REMINDER_TIME)
    IN  IF today_target >= t THEN today_target ELSE today_target + DAY
\* first_run of schedule_daily_counter
FirstRun(t) ==
    LET today_target == Combine(DateOf(t), DAILY_REMINDER_TIME)
    IN  IF today_target > t THEN today_target ELSE today_target + DAY

ScheduleDailyKeeping(q, user_id, event, t) ==
    run_repeating(q, FirstRun(t), DailyName(user_id, event.id),
                  [user_id |-> user_id, event |-> event])
schedule_daily_counter(q, user_id, event, t) ==
    LET job_name == DailyName(user_id, event.id)
        first_run == FirstRun(t)
    IN  run_repeating(remove_existing_jobs(q, job_name), first_run, job_name,
                      [user_id |-> user_id, event |-> event])

PassedInclusive(when, t) == when < t
\* the test `when <= now` of schedule_event_reminders
Passed(when, t) == when <= t

RECURSIVE RemindersFrom(_, _, _, _, _)
\* the loop of schedule_event_reminders from its i-th offset on
RemindersFrom(q, user_id, event, t, i) ==
    IF i > Len(REMINDER_OFFSETS) THEN q
    ELSE LET offset == REMINDER_OFFSETS[i]
             when == event.when - offset
             job_name == ReminderName(user_id, event.id, offset)
         IN  IF Passed(when, t)
             THEN RemindersFrom(q, user_id, event, t, i + 1)
             ELSE RemindersFrom(
                      run_once(remove_existing_jobs(q, job_name), when, job_name,
                               [user_id |-> user_id, event |-> event, offset |-> offset]),
                      user_id, event, t, i + 1)

schedule_event_reminders(q, user_id, event, t) ==
    RemindersFrom(q, user_id, event, t, 1)

ScheduleUnguarded(q, user_id, event, t) ==
    schedule_event_reminders(schedule_daily_counter(q, user_id, event, t), user_id, event, t)
\* schedule_event_jobs, with t the value of its datetime.now()
schedule_event_jobs(q, user_id, event, t) ==
    IF event.when <= t THEN q
    ELSE schedule_event_reminders(schedule_daily_counter(q, user_id, event, t),
                                  user_id, event, t)

----------------------------------------------------------------------------
(* EventStore.                                                             *)

\* EventStore.list_events
list_events(file, user_id) == SortByWhen(Get(_read(file).data, str(user_id)))

ReplaceList(data, user_id, event) ==
    LET user_key == str(user_id)
    IN  [k \in DOMAIN data \cup {user_key} |->
            IF k = user_key THEN <<event>> ELSE data[k]]
\* the body of add_event between _read and _write: append, sort, store back
AddToData(data, user_id, event) ==
    LET user_key == str(user_id)
        events == SortByWhen(Append(Get(data, user_key), event))
    IN  [k \in DOMAIN data \cup {user_key} |->
            IF k = user_key THEN events ELSE data[k]]

\* Where a write can stop: nowhere ("none"), before the temporary file is
\* opened ("open": mkdir or open raises), inside json.dump ("dump"), or at
\* the rename ("replace").
WriteFaults == {"none", "open", "dump", "replace"}

WriteInPlace(file, tmpf, data, fault) ==
    CASE fault = "none" -> [path |-> Complete(Serialize(data)), tmp |-> tmpf, raised |-> FALSE]
      [] fault = "open" -> [path |-> file, tmp |-> tmpf, raised |-> TRUE]
      [] OTHER -> [path |-> Partial, tmp |-> tmpf, raised |-> TRUE]
\* EventStore._write: the two files after it, and whether it raised
_write(file, tmpf, data, fault) ==
    CASE fault = "none" -> [path |-> Complete(Serialize(data)), tmp |-> Absent, raised |-> FALSE]
      [] fault = "open" -> [path |-> file, tmp |-> tmpf, raised |-> TRUE]
      [] fault = "dump" -> [path |-> file, tmp |-> Partial, raised |-> TRUE]
      [] OTHER -> [path |-> file, tmp |-> Complete(Serialize(data)), raised |-> TRUE]

\* EventStore.add_event, run with the lock held from _read to _write
add_event(file, tmpf, user_id, event, fault) ==
    LET r == _read(file)
    IN  IF ~r.ok THEN [path |-> file, tmp |-> tmpf, raised |-> TRUE]
        ELSE _write(file, tmpf, AddToData(r.data, user_id, event), fault)

\* every (owner key, event) of a file
Stored(file) ==
    LET data == _read(file).data
    IN  UNION {{<<k, data[k][i]>> : i \in 1..Len(data[k])} : k \in DOMAIN data}

StoredIds(file) == {p[2].id : p \in Stored(file)}

----------------------------------------------------------------------------
(* Recovery.                                                               *)

RECURSIVE RescheduleEvents(_, _, _, _, _)
\* the inner loop of reschedule_all_events from the i-th event of a user on
RescheduleEvents(q, user_id, events, t, i) ==
    IF i > Len(events) THEN q
    ELSE IF events[i].when > t
         THEN RescheduleEvents(schedule_event_jobs(q, user_id, events[i], t),
                               user_id, events, t, i + 1)
         ELSE RescheduleEvents(q, user_id, events, t, i + 1)

RECURSIVE RescheduleKeys(_, _, _, _)
RescheduleKeysFatal(q, data, keys, t) ==
    IF keys = {} THEN q
    ELSE LET user_id_str == CHOOSE k \in keys : TRUE
             user_id == int(user_id_str)
         IN  IF ~user_id.ok
             THEN EmptyBag
             ELSE RescheduleKeys(
                      RescheduleEvents(q, user_id.value, data[user_id_str], t, 1),
                      data, keys \ {user_id_str}, t)
\* the outer loop of reschedule_all_events over the keys still to visit
RescheduleKeys(q, data, keys, t) ==
    IF keys = {} THEN q
    ELSE LET user_id_str == CHOOSE k \in keys : TRUE
             user_id == int(user_id_str)
         IN  IF ~user_id.ok
             THEN RescheduleKeys(q, data, keys \ {user_id_str}, t)
             ELSE RescheduleKeys(
                      RescheduleEvents(q, user_id.value, data[user_id_str], t, 1),
                      data, keys \ {user_id_str}, t)

RescheduleFirstOnly(q, file, t) ==
    LET data == _read(file).data
    IN  RescheduleKeys(q, [k \in DOMAIN data |-> SubSeq(data[k], 1, 1)], DOMAIN data, t)
\* reschedule_all_events, with t the value of datetime.now()
reschedule_all_events(q, file, t) ==
    LET data == _read(file).data
    IN  RescheduleKeys(q, data, DOMAIN data, t)

----------------------------------------------------------------------------
(* What users send.  A text is modelled by what the code reads off it.     *)

\* texts sent as a title: blank, two titles, and the cancel word
TitleTexts == {" ", "a", "b", "Otmena"}
\* str.strip()
strip(text) == IF text = " " THEN "" ELSE text
\* str.lower()
lower(text) == IF text = "Otmena" THEN "otmena" ELSE text

\* hours of the day at which "YYYY-MM-DD HH:MM" inputs of the model fall
InputTime == 18 * 60
\* texts sent as a date: "YYYY-MM-DD HH:MM", "YYYY-MM-DD", anything else,
\* and the cancel word
DateTexts ==
    {[fmt |-> "%Y-%m-%d %H:%M", date |-> d, time |-> InputTime] : d \in 0..MaxDay} \cup
    {[fmt |-> "%Y-%m-%d", date |-> d, time |-> 0] : d \in 0..MaxDay} \cup
    {[fmt |-> "junk", date |-> 0, time |-> 0], [fmt |-> "Otmena", date |-> 0, time |-> 0]}

\* parse_datetime: ok is FALSE where it returns None
parse_datetime(raw) ==
    IF raw.fmt = "%Y-%m-%d %H:%M" THEN [ok |-> TRUE, when |-> Combine(raw.date, raw.time)]
    ELSE IF raw.fmt = "%Y-%m-%d" THEN [ok |-> TRUE, when |-> Combine(raw.date, DEFAULT_TIME)]
    ELSE [ok |-> FALSE, when |-> 0]

\* humanize_timedelta: the parts it joins, as <<unit, amount>> pairs
humanize_timedelta(delta) ==
    LET total_minutes == delta
        hours == total_minutes \div 60
        minutes == total_minutes % 60
        h == IF hours # 0 THEN <<[unit |-> "h", n |-> hours]>> ELSE <<>>
    IN  IF minutes # 0 \/ h = <<>> THEN h \o <<[unit |-> "min", n |-> minutes]>> ELSE h

----------------------------------------------------------------------------
(* The clock.                                                              *)

\* times of day at which the clock is read besides the run times of jobs
TimesOfDay == {DAILY_REMINDER_TIME, 17 * 60 + 40}

ClockValues ==
    {t \in {Combine(d, tod) : d \in 0..(MaxDay + 1), tod \in TimesOfDay}
           \cup {j.next : j \in BagToSet(jobs)} : t <= MaxTime}

\* the clock values the clock can move to from t: no job's run time is skipped
Later(t) ==
    {x \in ClockValues : x > t /\ \A j \in BagToSet(jobs) : x <= j.next}

\* what the clock can read when a handler that started at t calls
\* create_event_and_schedule: still t, or the next clock value
During(t) == {t} \cup {x \in Later(t) : \A y \in Later(t) : x <= y}

----------------------------------------------------------------------------
(* State.                                                                  *)

\* asyncio.Lock(): not held
NoTask == 0
Tasks == 1..NumTasks
ConvKeys == AllChats \X Users

\* op: the handler, callback or step; text: the kind of reply or message it
\* sent ("none": nothing, "error": one of the replies to a rejected input),
\* n: the number in that text, id: the event it is about, raised: it ended
\* with an exception
Out(op, text, n, id, raised) ==
    [op |-> op, text |-> text, n |-> n, id |-> id, raised |-> raised]

IdleTask == [pc |-> "idle", user_id |-> 0, event |-> Event(0, "", 0, 0), data |-> EmptyDict]

\* the process has started on a first run: no file, no job
Init ==
    /\ now = 0
    /\ up = TRUE
    /\ disk = Absent
    /\ tmp = Absent
    /\ jobs = EmptyBag
    /\ uuid = 0
    /\ conv = [k \in ConvKeys |-> END]
    /\ user_data = [u \in Users |-> NoTitle]
    /\ sent = EmptyBag
    /\ out = Out("main", "none", 0, 0, FALSE)
    /\ lock = NoTask
    /\ task = [i \in Tasks |-> IdleTask]

----------------------------------------------------------------------------
(* Creating an event.                                                      *)

CreateRegisterFirst(user_id, chat_id, title, when, t, fault) ==
    LET event == Event(uuid + 1, title, when, chat_id)
        w == add_event(disk, tmp, user_id, event, fault)
    IN  [event |-> event, path |-> w.path, tmp |-> w.tmp, raised |-> w.raised,
         jobs |-> schedule_event_jobs(jobs, user_id, event, t)]
\* create_event_and_schedule called when the clock reads t: the event it
\* builds, the two files and the job queue after it, and whether add_event
\* raised (schedule_event_jobs is not reached then)
create_event_and_schedule(user_id, chat_id, title, when, t, fault) ==
    LET event == Event(uuid + 1, title, when, chat_id)
        w == add_event(disk, tmp, user_id, event, fault)
    IN  [event |-> event, path |-> w.path, tmp |-> w.tmp, raised |-> w.raised,
         jobs |-> IF w.raised THEN jobs ELSE schedule_event_jobs(jobs, user_id, event, t)]

\* the process is gone: what it held in memory is lost
Died ==
    /\ up' = FALSE
    /\ jobs' = EmptyBag
    /\ conv' = [k \in ConvKeys |-> END]
    /\ user_data' = [u \in Users |-> NoTitle]

NoDate == [fmt |-> "junk", date |-> 0, time |-> 0]
\* commands sent as /add: no argument, no semicolon, or "title; date"
AddCommands ==
    {[form |-> "noargs", title |-> " ", date |-> NoDate],
     [form |-> "nosemicolon", title |-> " ", date |-> NoDate]}
    \cup {[form |-> "payload", title |-> ti, date |-> da] : ti \in {" ", "a"}, da \in DateTexts}

RejectPast(when, t) == when < t
\* the test `when <= now` of add_event_command and add_event_date
NotFuture(when, t) == when <= t

\* The steps of a handler from its call of create_event_and_schedule on: the
\* clock reads t there; the write stops at `fault`, where the process dies
\* if `dies` and the handler ends with the exception otherwise.
Creates(op, user_id, chat_id, title, when, t, fault, dies) ==
    LET r == create_event_and_schedule(user_id, chat_id, title, when, t, fault)
    IN  /\ uuid < MaxEvents
        /\ dies => fault \in {"dump", "replace"}
        /\ now' = t
        /\ uuid' = uuid + 1
        /\ disk' = r.path
        /\ tmp' = r.tmp
        /\ IF dies
           THEN /\ Died
                /\ out' = Out(op, "none", 0, r.event.id, FALSE)
           ELSE /\ jobs' = r.jobs
                /\ up' = up
                /\ out' = Out(op, IF r.raised THEN "none" ELSE "added", 0, r.event.id, r.raised)

\* add_event_command: the /add handler.  The clock reads `now` at its
\* validation and t when create_event_and_schedule runs.
add_event_command(chat_id, user_id, cmd, t, fault, dies) ==
    LET title_raw == strip(cmd.title)
        parsed == parse_datetime(cmd.date)
        reject == IF cmd.form = "noargs" THEN "usage"
                  ELSE IF cmd.form = "nosemicolon" THEN "need_semicolon"
                  ELSE IF title_raw = "" THEN "empty_title"
                  ELSE IF ~parsed.ok THEN "bad_date"
                  ELSE IF NotFuture(parsed.when, now) THEN "not_future"
                  ELSE "none"
    IN  /\ up
        /\ lock = NoTask
        /\ UNCHANGED <<sent, lock, task>>
        /\ IF reject # "none"
           THEN /\ t = now /\ fault = "none" /\ ~dies
                /\ out' = Out("add_event_command", "error", 0, 0, FALSE)
                /\ UNCHANGED <<now, up, disk, tmp, jobs, uuid, conv, user_data>>
           ELSE /\ Creates("add_event_command", user_id, chat_id, title_raw, parsed.when,
                           t, fault, dies)
                /\ IF dies THEN TRUE ELSE UNCHANGED <<conv, user_data>>

----------------------------------------------------------------------------
(* The guided conversation.                                                *)

\* add_event_start: entry point, also from inside a conversation (allow_reentry)
add_event_start(chat_id, user_id) ==
    /\ up
    /\ conv' = [conv EXCEPT ![<<chat_id, user_id>>] = TITLE]
    /\ out' = Out("add_event_start", "ask_title", 0, 0, FALSE)
    /\ UNCHANGED <<now, up, disk, tmp, jobs, uuid, user_data, sent, lock, task>>

\* add_event_title: a text received in state TITLE
add_event_title(chat_id, user_id, text) ==
    LET title == strip(text)
        cancelled == title = "" \/ lower(title) = "otmena"
    IN  /\ up
        /\ conv[<<chat_id, user_id>>] = TITLE
        /\ conv' = [conv EXCEPT ![<<chat_id, user_id>>] = IF cancelled THEN END ELSE DATE]
        /\ user_data' = IF cancelled THEN user_data
                        ELSE [user_data EXCEPT ![user_id] = title]
        /\ out' = Out("add_event_title", IF cancelled THEN "cancelled" ELSE "ask_date",
                      0, 0, FALSE)
        /\ UNCHANGED <<now, up, disk, tmp, jobs, uuid, sent, lock, task>>

\* add_event_date: a text received in state DATE
add_event_date(chat_id, user_id, text, t, fault, dies) ==
    LET parsed == parse_datetime(text)
        reject == IF lower(text.fmt) = "otmena" THEN "cancelled"
                  ELSE IF ~parsed.ok THEN "bad_date"
                  ELSE IF NotFuture(parsed.when, now) THEN "not_future"
                  ELSE "none"
        title == IF user_data[user_id] = NoTitle THEN DEFAULT_TITLE ELSE user_data[user_id]
        r == create_event_and_schedule(user_id, chat_id, title, parsed.when, t, fault)
    IN  /\ up
        /\ lock = NoTask
        /\ conv[<<chat_id, user_id>>] = DATE
        /\ UNCHANGED <<sent, lock, task>>
        /\ IF reject # "none"
           THEN /\ t = now /\ fault = "none" /\ ~dies
                /\ conv' = [conv EXCEPT ![<<chat_id, user_id>>] =
                               IF reject = "cancelled" THEN END ELSE DATE]
                /\ out' = Out("add_event_date",
                               IF reject = "cancelled" THEN "cancelled" ELSE "error",
                               0, 0, FALSE)
                /\ UNCHANGED <<now, up, disk, tmp, jobs, uuid, user_data>>
           ELSE /\ Creates("add_event_date", user_id, chat_id, title, parsed.when,
                           t, fault, dies)
                /\ IF dies THEN TRUE
                   ELSE IF r.raised THEN UNCHANGED <<conv, user_data>>
                   ELSE /\ user_data' = [user_data EXCEPT ![user_id] = NoTitle]
                        /\ conv' = [conv EXCEPT ![<<chat_id, user_id>>] = END]

\* cancel_add: /cancel received inside a conversation
cancel_add(chat_id, user_id) ==
    /\ up
    /\ conv[<<chat_id, user_id>>] # END
    /\ conv' = [conv EXCEPT ![<<chat_id, user_id>>] = END]
    /\ user_data' = [user_data EXCEPT ![user_id] = NoTitle]
    /\ out' = Out("cancel_add", "cancelled", 0, 0, FALSE)
    /\ UNCHANGED <<now, up, disk, tmp, jobs, uuid, sent, lock, task>>

----------------------------------------------------------------------------
(* Timer callbacks.  A job runs when the clock has reached its run time.   *)
(* `keep` says whether the run records the delivered messages in `sent`.   *)

Message(chat_id, callback, id, text, n) ==
    [chat_id |-> chat_id, callback |-> callback, id |-> id, text |-> text, n |-> n,
     at |-> now]

ElapsedStrict(when, t) == when < t
ElapsedDay(when, t) == DateOf(when) <= DateOf(t)
\* the test `event.when <= now` of daily_countdown
Elapsed(when, t) == when <= t

\* daily_countdown, run for job j
daily_countdown(j, keep) ==
    LET event == j.data.event
        days_left == DateOf(event.when) - DateOf(now)
        rest == jobs (-) SetToBag({j})
    IN  /\ up
        /\ j \in BagToSet(jobs)
        /\ j.callback = "daily_countdown"
        /\ j.next <= now
        /\ IF Elapsed(event.when, now)
           THEN /\ jobs' = rest
                /\ sent' = sent
                /\ out' = Out("daily_countdown", "none", 0, event.id, FALSE)
           ELSE /\ jobs' = rest (+) SetToBag({[j EXCEPT !.next = j.next + DAY]})
                /\ sent' = IF keep
                           THEN sent (+) SetToBag({Message(event.chat_id, "daily_countdown",
                                                           event.id, "days_left", days_left)})
                           ELSE sent
                /\ out' = Out("daily_countdown", "days_left", days_left, event.id, FALSE)
        /\ UNCHANGED <<now, up, disk, tmp, uuid, conv, user_data, lock, task>>

\* event_reminder, run for job j (a run_once job leaves the queue as it runs)
event_reminder(j, keep) ==
    LET event == j.data.event
        offset == j.data.offset
        text == IF offset * 60 <= 0 THEN "starts_now" ELSE "starts_in"
    IN  /\ up
        /\ j \in BagToSet(jobs)
        /\ j.callback = "event_reminder"
        /\ j.next <= now
        /\ jobs' = jobs (-) SetToBag({j})
        /\ sent' = IF keep
                   THEN sent (+) SetToBag({Message(event.chat_id, "event_reminder",
                                                   event.id, text, offset)})
                   ELSE sent
        /\ out' = Out("event_reminder", text, offset, event.id, FALSE)
        /\ UNCHANGED <<now, up, disk, tmp, uuid, conv, user_data, lock, task>>

----------------------------------------------------------------------------
(* The environment: time passes, the process stops and starts.             *)

Tick(t) ==
    /\ t \in Later(now)
    /\ now' = t
    /\ out' = Out("tick", "none", 0, 0, FALSE)
    /\ UNCHANGED <<up, disk, tmp, jobs, uuid, conv, user_data, sent, lock, task>>

Crash ==
    /\ up
    /\ Died
    /\ out' = Out("crash", "none", 0, 0, FALSE)
    /\ UNCHANGED <<now, disk, tmp, uuid, sent, lock, task>>

\* main: the application is built and _post_init runs reschedule_all_events.
\* A store that cannot be read makes _post_init raise: the process does not start.
Start ==
    /\ ~up
    /\ _read(disk).ok
    /\ up' = TRUE
    /\ jobs' = reschedule_all_events(EmptyBag, disk, now)
    /\ out' = Out("_post_init", "none", 0, 0, FALSE)
    /\ UNCHANGED <<now, disk, tmp, uuid, conv, user_data, sent, lock, task>>

----------------------------------------------------------------------------
(* The bot: the /add entry path, the timers, the clock, stops and starts.  *)

Next ==
    \/ \E c \in Chats, u \in Users, cmd \in AddCommands, t \in During(now),
          fault \in WriteFaults, dies \in BOOLEAN :
            add_event_command(c, u, cmd, t, fault, dies)
    \/ \E j \in BagToSet(jobs) : daily_countdown(j, FALSE)
    \/ \E j \in BagToSet(jobs) : event_reminder(j, FALSE)
    \/ \E t \in Later(now) : Tick(t)
    \/ Crash
    \/ Start

Spec == Init /\ [][Next]_vars

\* The bot with a clock that goes on and a job queue that runs every job
\* that is due (the process may still stop at any time).
SpecLive ==
    /\ Init /\ [][Next]_vars
    /\ WF_vars(\E t \in Later(now) : Tick(t))
    /\ WF_vars(\E j \in BagToSet(jobs) : daily_countdown(j, FALSE))
    /\ WF_vars(\E j \in BagToSet(jobs) : event_reminder(j, FALSE))

----------------------------------------------------------------------------
(* The two entry paths side by side: /add and the guided conversation.     *)

NextEntry ==
    \/ \E c \in Chats, u \in Users, cmd \in AddCommands, t \in During(now) :
            add_event_command(c, u, cmd, t, "none", FALSE)
    \/ \E c \in Chats, u \in Guided : add_event_start(c, u)
    \/ \E c \in Chats, u \in Guided, text \in TitleTexts : add_event_title(c, u, text)
    \/ \E c \in Chats, u \in Guided, text \in DateTexts, t \in During(now) :
            add_event_date(c, u, text, t, "none", FALSE)
    \/ \E c \in Chats, u \in Guided : cancel_add(c, u)
    \/ \E j \in BagToSet(jobs) : daily_countdown(j, FALSE)
    \/ \E j \in BagToSet(jobs) : event_reminder(j, FALSE)
    \/ \E t \in Later(now) : Tick(t)

SpecEntry == Init /\ [][NextEntry]_vars

----------------------------------------------------------------------------
(* EventStore.add_event called by concurrent tasks: each `await` of it is  *)
(* a point where another task can run.                                     *)

AcquireAlways(holder) == TRUE
\* asyncio.Lock.acquire returns once the lock is not held
CanAcquire(holder) == holder = NoTask

\* a task calls store.add_event(user_id, event)
TaskCall(i, user_id, when) ==
    /\ task[i].pc = "idle"
    /\ task' = [task EXCEPT ![i] = [pc |-> "acquire", user_id |-> user_id,
                                    event |-> Event(uuid + 1, "a", when, 10),
                                    data |-> EmptyDict]]
    /\ uuid' = uuid + 1
    /\ UNCHANGED <<now, up, disk, tmp, jobs, conv, user_data, sent, out, lock>>

\* async with self._lock
TaskAcquire(i) ==
    /\ task[i].pc = "acquire"
    /\ CanAcquire(lock)
    /\ lock' = i
    /\ task' = [task EXCEPT ![i].pc = "read"]
    /\ UNCHANGED <<now, up, disk, tmp, jobs, uuid, conv, user_data, sent, out>>

\* data = await self._read()
TaskRead(i) ==
    /\ task[i].pc = "read"
    /\ task' = [task EXCEPT ![i].pc = "write", ![i].data = _read(disk).data]
    /\ UNCHANGED <<now, up, disk, tmp, jobs, uuid, conv, user_data, sent, out, lock>>

\* events.append ... await self._write(data)
TaskWrite(i) ==
    LET w == _write(disk, tmp, AddToData(task[i].data, task[i].user_id, task[i].event), "none")
    IN  /\ task[i].pc = "write"
        /\ disk' = w.path
        /\ tmp' = w.tmp
        /\ task' = [task EXCEPT ![i].pc = "release"]
        /\ UNCHANGED <<now, up, jobs, uuid, conv, user_data, sent, out, lock>>

\* leaving `async with`: the lock is released and add_event returns
TaskRelease(i) ==
    /\ task[i].pc = "release"
    /\ lock' = NoTask
    /\ task' = [task EXCEPT ![i].pc = "done"]
    /\ UNCHANGED <<now, up, disk, tmp, jobs, uuid, conv, user_data, sent, out>>

\* the moments of the events the tasks add
TaskWhens == {Combine(0, DEFAULT_TIME), Combine(0, InputTime)}

NextStore ==
    \/ \E i \in Tasks, u \in Users, when \in TaskWhens : TaskCall(i, u, when)
    \/ \E i \in Tasks : TaskAcquire(i)
    \/ \E i \in Tasks : TaskRead(i)
    \/ \E i \in Tasks : TaskWrite(i)
    \/ \E i \in Tasks : TaskRelease(i)

SpecStore == Init /\ [][NextStore]_vars

----------------------------------------------------------------------------
(* The guided conversation of one user in two chats: the conversation      *)
(* state is kept per (chat, user), context.user_data per user.             *)

\* the titles a user sends in a chat: a different one in each chat, so that
\* the title of a stored event tells the chat it was entered in
ChatTitles(c) == IF c = 10 THEN {"a"} ELSE {"b"}

NextConv ==
    \/ \E c \in AllChats, u \in Guided : add_event_start(c, u)
    \/ \E c \in AllChats, u \in Guided :
          \E text \in ChatTitles(c) \cup {" ", "Otmena"} : add_event_title(c, u, text)
    \/ \E c \in AllChats, u \in Guided, text \in DateTexts, t \in During(now) :
            add_event_date(c, u, text, t, "none", FALSE)
    \/ \E c \in AllChats, u \in Guided : cancel_add(c, u)
    \/ \E j \in BagToSet(jobs) : daily_countdown(j, FALSE)
    \/ \E j \in BagToSet(jobs) : event_reminder(j, FALSE)
    \/ \E t \in Later(now) : Tick(t)

SpecConv == Init /\ [][NextConv]_vars

----------------------------------------------------------------------------
(* The bot with the record of what it delivered: every message the timer   *)
(* callbacks send is kept in `sent`, with the clock value of the delivery. *)

NextNotify ==
    \/ \E c \in Chats, u \in Users, cmd \in AddCommands, t \in During(now) :
            add_event_command(c, u, cmd, t, "none", FALSE)
    \/ \E j \in BagToSet(jobs) : daily_countdown(j, TRUE)
    \/ \E j \in BagToSet(jobs) : event_reminder(j, TRUE)
    \/ \E t \in Later(now) : Tick(t)
    \/ Crash
    \/ Start

SpecNotify == Init /\ [][NextNotify]_vars

----------------------------------------------------------------------------
(* Start-up on a store file the process did not write itself: keys that    *)
(* are no integers, records Event.from_dict cannot build.                  *)

\* the records found in a file: a well-formed record of a future event, a
\* record without its "when" key, a record whose "when" is no date
RecordKinds == {"good", "nokey", "badiso"}
RawRecord(kind, id) ==
    CASE kind = "good" -> to_dict(Event(id, "a", Combine(0, InputTime), 10))
      [] kind = "nokey" -> [id |-> id, title |-> "a", chat_id |-> 10]
      [] OTHER -> [id |-> id, title |-> "a", chat_id |-> 10,
                   when |-> [date |-> 0, hour |-> 24, minute |-> 0]]

\* the lists of records a key of the file holds; ids are unique in the file
RecordLists(base) ==
    UNION {{[i \in 1..n |-> RawRecord(kinds[i], base + i)] : kinds \in [1..n -> RecordKinds]}
           : n \in 1..MaxRecords}

\* the store files found at start-up: lists under the keys "1" and "2", and
\* possibly a well-formed record under the key "x"
FoundFiles ==
    {Complete([k \in keys |->
                 CASE k = "1" -> l1 [] k = "2" -> l2 [] OTHER -> <<RawRecord("good", 31)>>])
       : keys \in SUBSET {"1", "2", "x"}, l1 \in RecordLists(10), l2 \in RecordLists(20)}

InitFound ==
    /\ now \in {0, Combine(0, DAILY_REMINDER_TIME)}
    /\ up = FALSE
    /\ disk \in FoundFiles
    /\ tmp = Absent
    /\ jobs = EmptyBag
    /\ uuid = 0
    /\ conv = [k \in ConvKeys |-> END]
    /\ user_data = [u \in Users |-> NoTitle]
    /\ sent = EmptyBag
    /\ out = Out("main", "none", 0, 0, FALSE)
    /\ lock = NoTask
    /\ task = [i \in Tasks |-> IdleTask]

\* _post_init where load_all raises: the exception leaves main, no job runs
StartFails ==
    /\ ~up
    /\ ~_read(disk).ok
    /\ out' = Out("_post_init", "none", 0, 0, TRUE)
    /\ UNCHANGED <<now, up, disk, tmp, jobs, uuid, conv, user_data, sent, lock, task>>

NextFound ==
    \/ Start
    \/ StartFails
    \/ \E j \in BagToSet(jobs) : daily_countdown(j, FALSE)
    \/ \E j \in BagToSet(jobs) : event_reminder(j, FALSE)
    \/ \E t \in Later(now) : Tick(t)
    \/ Crash

SpecFound == InitFound /\ [][NextFound]_vars

----------------------------------------------------------------------------
(* Properties.                                                             *)

Offsets == {REMINDER_OFFSETS[i] : i \in 1..Len(REMINDER_OFFSETS)}
\* the stored events with a given id, each with its owner key
ById(file, id) == {p \in Stored(file) : p[2].id = id}
\* the jobs of a queue that carry a given event id
JobsOf(q, id) == {j \in BagToSet(q) : j.data.event.id = id}
\* how many jobs of a queue have a given name
NameCount(q, name) == BagCardinality([j \in get_jobs_by_name(q, name) |-> q[j]])
\* the user ids whose key in the store is k
OwnersOf(k) == {u \in Users : str(u) = k}

\* C1: a call of create_event_and_schedule that returns, made by /add with a
\* valid title and a date in the future, adds exactly one event to the
\* persisted store: the new one, under its owner; every other event and
\* every other owner's list is as before; list_events of the owner then
\* contains the new event and is sorted ascending by when.
C1_CreatePersistsOne ==
    [][\A c \in Chats, u \in Users, cmd \in AddCommands, t \in During(now) :
          (add_event_command(c, u, cmd, t, "none", FALSE) /\ out'.text = "added") =>
            LET before == _read(disk).data
                after == _read(disk').data
                new == Event(uuid', strip(cmd.title), parse_datetime(cmd.date).when, c)
                listed == list_events(disk', u)
            IN  /\ strip(cmd.title) # "" /\ new.when > now
                /\ <<str(u), new>> \notin Stored(disk)
                /\ Stored(disk') = Stored(disk) \cup {<<str(u), new>>}
                /\ DOMAIN after = DOMAIN before \cup {str(u)}
                /\ \A k \in DOMAIN before \ {str(u)} : after[k] = before[k]
                /\ Len(after[str(u)]) = Len(Get(before, str(u))) + 1
                /\ IsSorted(listed)
                /\ \E i \in 1..Len(listed) : listed[i] = new
      ]_vars

\* C1 witness: /add has just returned an event that list_events shows in
\* front of an older, later event of the same owner.
C1_Witness ==
    /\ out.op = "add_event_command" /\ out.text = "added"
    /\ \E u \in Users :
          LET listed == list_events(disk, u)
          IN  /\ Len(listed) = 2
              /\ listed[1].id = out.id
              /\ listed[1].when < listed[2].when

\* C2: deriving the timers of a stored event twice at the same clock value
\* gives the same job queue as deriving them once, and in it each timer name
\* of the event is registered once: the second call replaces what the first
\* registered.
C2_Idempotent ==
    \A p \in Stored(disk) : \A u \in OwnersOf(p[1]) :
        LET event == p[2]
            once == schedule_event_jobs(jobs, u, event, now)
            twice == schedule_event_jobs(once, u, event, now)
            names == {DailyName(u, event.id)} \cup
                     {ReminderName(u, event.id, offset) : offset \in Offsets}
        IN  /\ twice = once
            /\ {j.name : j \in BagToSet(twice)} = {j.name : j \in BagToSet(once)}
            /\ \A n \in names : NameCount(twice, n) <= 1
            /\ event.when > now => NameCount(twice, DailyName(u, event.id)) = 1

\* C2 witness: a future event whose timers are in the queue already, so that
\* both derivations replace registered timers.
C2_Witness ==
    \E p \in Stored(disk) : \E u \in OwnersOf(p[1]) :
        /\ p[2].when > now
        /\ NameCount(jobs, DailyName(u, p[2].id)) = 1
        /\ NameCount(jobs, ReminderName(u, p[2].id, 0)) = 1
        /\ Cardinality(JobsOf(jobs, p[2].id)) >= 3

RECURSIVE SumBags(_)
\* the bag sum of a set of bags
SumBags(bags) ==
    IF bags = {} THEN EmptyBag
    ELSE LET b == CHOOSE x \in bags : TRUE IN b (+) SumBags(bags \ {b})

\* the stored events with when > t, each with its owner's user id
FutureOwned(file, t) ==
    UNION {{<<u, p[2]>> : u \in OwnersOf(p[1])} : p \in {x \in Stored(file) : x[2].when > t}}

\* the timers of these events, each derived on its own through
\* schedule_event_jobs at clock value t
Projection(file, t) ==
    SumBags({schedule_event_jobs(EmptyBag, ue[1], ue[2], t) : ue \in FutureOwned(file, t)})

\* C3: right after recovery has run on an empty job queue, the queue holds
\* exactly the timers (names, callbacks, run times, data) that
\* schedule_event_jobs derives at that clock value for each stored event with
\* when > now, taken with its owner.
C3_RecoveryIsProjection ==
    out.op = "_post_init" =>
        /\ jobs = Projection(disk, now)
        /\ Cardinality(BagToSet(jobs)) = BagCardinality(jobs)

\* C3 witness: recovery has just run on a store with two future events.
C3_Witness ==
    /\ out.op = "_post_init"
    /\ Cardinality(FutureOwned(disk, now)) = 2
    /\ jobs # EmptyBag

\* the steps that register timers: a creation that returned, and recovery
Registers == out'.text = "added" \/ out'.op = "_post_init"

\* C4: a step that registers timers (a creation or recovery, the clock
\* reading now') registers for an event the reminder of offset o exactly when
\* event.when - o > now': every reminder job it adds runs at
\* event.when - offset, later than now'; an event 20 minutes ahead gets the
\* reminders of 5 minutes and of 0 seconds only.
C4_NoElapsedReminder ==
    [][Registers =>
         /\ \A j \in BagToSet(jobs') \ BagToSet(jobs) :
               j.callback = "event_reminder" =>
                 /\ j.next = j.data.event.when - j.data.offset
                 /\ j.next > now'
         /\ \A ue \in FutureOwned(disk', now') :
               (out'.op = "_post_init" \/ ue[2].id = out'.id) =>
                 {j.data.offset : j \in {x \in JobsOf(jobs', ue[2].id) :
                                            x.callback = "event_reminder"}}
                   = {o \in Offsets : ue[2].when - o > now'}
      ]_vars

\* C4 witness: /add has just created an event 20 minutes ahead, and its
\* reminders in the queue are those of 5 minutes and of 0 seconds.
C4_Witness ==
    /\ out.text = "added"
    /\ \E p \in ById(disk, out.id) :
          /\ p[2].when - now = 20
          /\ {j.data.offset : j \in {x \in JobsOf(jobs, out.id) :
                                        x.callback = "event_reminder"}} = {5, 0}

\* the first 09:00 at or after t
NineAtOrAfter(t) ==
    CHOOSE x \in {Combine(d, DAILY_REMINDER_TIME) : d \in 0..(DateOf(t) + 1)} :
        /\ x >= t
        /\ \A d \in 0..(DateOf(t) + 1) :
              Combine(d, DAILY_REMINDER_TIME) >= t => x <= Combine(d, DAILY_REMINDER_TIME)
\* the first 09:00 after t
NineAfter(t) == NineAtOrAfter(t + 1)

\* the daily jobs a step adds to the queue
NewDaily == {j \in BagToSet(jobs') \ BagToSet(jobs) : j.callback = "daily_countdown"}

\* C5 as claimed: the daily timer a step registers first runs at the first
\* 09:00 at or after the clock value of the registration, today's 09:00
\* when the clock reads exactly 09:00.
C5_FirstRunAtOrAfter ==
    [][Registers => \A j \in NewDaily : j.next = NineAtOrAfter(now')]_vars

\* C5 as amended: the daily timer a step registers first runs at the first
\* 09:00 strictly after the clock value of the registration (tomorrow's
\* when the clock reads exactly 09:00); a daily timer that has run and
\* stays in the queue runs next 24 hours after the run time it had.
C5_FirstRunAfter ==
    [][/\ Registers => \A j \in NewDaily : j.next = NineAfter(now')
       /\ \A j \in BagToSet(jobs) :
             (daily_countdown(j, FALSE) /\ out'.text = "days_left") =>
                /\ [j EXCEPT !.next = j.next + DAY] \in BagToSet(jobs')
                /\ j.next % DAY = DAILY_REMINDER_TIME
      ]_vars

\* C5 witness: an event created when the clock read exactly 09:00, its
\* daily timer set to 09:00 of the next day.
C5_Witness ==
    /\ out.text = "added"
    /\ now = Combine(DateOf(now), DAILY_REMINDER_TIME)
    /\ \E j \in JobsOf(jobs, out.id) :
          j.callback = "daily_countdown" /\ j.next = now + DAY

\* C6 as claimed: a countdown notification is sent only when days_left > 0.
C6_NotifiesOnlyPositive ==
    (out.op = "daily_countdown" /\ out.text = "days_left") => out.n > 0

\* C6 as amended: at every run of the daily countdown timer, if
\* event.when <= now the timer cancels itself and sends no notification;
\* otherwise it stays registered and the countdown notification is sent with
\* days_left = (event.when.date() - now.date()).days, which is >= 0 and is
\* 0 at 09:00 of the event's own day when the event is later that day.
C6_CancelsOnceElapsed ==
    out.op = "daily_countdown" =>
        \A p \in ById(disk, out.id) : \A u \in OwnersOf(p[1]) :
            IF p[2].when <= now
            THEN /\ out.text = "none"
                 /\ NameCount(jobs, DailyName(u, out.id)) = 0
            ELSE /\ out.text = "days_left"
                 /\ out.n = DateOf(p[2].when) - DateOf(now)
                 /\ out.n >= 0
                 /\ NameCount(jobs, DailyName(u, out.id)) = 1

\* C6 witness: the run at 09:00 of the event's own day has sent the
\* notification "0 days left".
C6_Witness ==
    /\ out.op = "daily_countdown" /\ out.text = "days_left" /\ out.n = 0
    /\ \E p \in ById(disk, out.id) :
          DateOf(p[2].when) = DateOf(now) /\ p[2].when > now

\* the tasks between acquiring the lock and releasing it
Holding == {i \in Tasks : task[i].pc \in {"read", "write", "release"}}

\* C7: under every interleaving of concurrent add_event calls, at most one
\* call is between its _read and its release of the lock, the lock is held
\* exactly while one is (so a waiting call gets it), and the event of every
\* call that has returned is in the persisted store, under its owner.
C7_NoLostUpdate ==
    /\ Cardinality(Holding) <= 1
    /\ \A i \in Tasks : (lock = i) <=> (i \in Holding)
    /\ lock = NoTask <=> Holding = {}
    /\ \A i \in Tasks :
          task[i].pc = "done" => <<str(task[i].user_id), task[i].event>> \in Stored(disk)

\* C7 witness: every call has returned, calls of two owners among them, and
\* the store holds one event per call.
C7_Witness ==
    /\ \A i \in Tasks : task[i].pc = "done"
    /\ \E i, j \in Tasks : task[i].user_id # task[j].user_id
    /\ Cardinality(Stored(disk)) = NumTasks

\* C8: the store file is never a truncated document; a step in which
\* create_event_and_schedule was called and the write did not get through
\* its rename leaves the file as it was, so that load_all returns the state
\* committed before; if the process lives, the handler ends with the
\* exception, without its "added" reply and with the job queue as it was.
C8_AtomicWrite ==
    [][/\ disk'.state # "partial"
       /\ (uuid' # uuid /\ out'.text # "added") =>
             /\ disk' = disk
             /\ _read(disk').ok
             /\ _read(disk').data = _read(disk).data
             /\ up' => (out'.raised /\ jobs' = jobs)
      ]_vars

\* C8 witness: a write has failed between the temporary file and the
\* rename: the temporary file holds the new document, the store file the
\* committed one, which has events.
C8_Witness ==
    /\ out.raised
    /\ tmp.state = "complete"
    /\ disk.state = "complete"
    /\ Stored(disk) # {}
    /\ StoredIds(tmp) = StoredIds(disk) \cup {out.id}
    /\ out.id \notin StoredIds(disk)

\* C9 as claimed: an event that create_event_and_schedule has just persisted
\* is strictly in the future at the clock value of the call (a call with
\* when <= now fails and persists nothing).
C9_RejectsNonFuture ==
    (out.op = "add_event_command" /\ out.id # 0) =>
        \A p \in ById(disk, out.id) : p[2].when > now

\* C9 as amended: create_event_and_schedule does not check `when`: called
\* with when <= now it persists the event all the same and returns it, and
\* registers no timer for it.
C9_PersistsWithoutTimers ==
    (out.op = "add_event_command" /\ out.text = "added") =>
        /\ ById(disk, out.id) # {}
        /\ \A p \in ById(disk, out.id) : p[2].when <= now => JobsOf(jobs, out.id) = {}

\* C9 witness: /add has returned an event whose moment the clock reached
\* between the validation and the call: it is stored, without a timer.
C9_Witness ==
    /\ out.op = "add_event_command" /\ out.text = "added"
    /\ \E p \in ById(disk, out.id) : p[2].when <= now
    /\ JobsOf(jobs, out.id) = {}

\* the date a text stands for, where it is one of the two accepted formats
Accepted(text) == text.fmt \in {"%Y-%m-%d %H:%M", "%Y-%m-%d"}
Moment(text) ==
    IF text.fmt = "%Y-%m-%d" THEN text.date * DAY + DEFAULT_TIME
    ELSE text.date * DAY + text.time
\* a date text that is rejected at clock value t: unparsable, or not in the future
BadDate(text, t) == ~Accepted(text) \/ Moment(text) <= t

Rejected == out'.text \in {"error", "cancelled"} /\ ~out'.raised
Untouched == disk' = disk /\ tmp' = tmp /\ jobs' = jobs /\ uuid' = uuid

\* C10: a step of /add whose input has an empty title, an unparsable date
\* or a date not strictly in the future, and a step of the guided
\* conversation that receives an empty title or such a date, replies with
\* an error (the conversation: with its error or its "cancelled" reply) and
\* leaves the store file and the job queue as they were.
C10_ValidationErrors ==
    [][/\ \A c \in Chats, u \in Users, cmd \in AddCommands :
             (/\ add_event_command(c, u, cmd, now, "none", FALSE)
              /\ \/ cmd.form # "payload"
                 \/ cmd.title = " "
                 \/ BadDate(cmd.date, now))
             => (Rejected /\ Untouched)
       /\ \A c \in Chats, u \in Guided, text \in TitleTexts :
             (add_event_title(c, u, text) /\ text = " ") => (Rejected /\ Untouched)
       /\ \A c \in Chats, u \in Guided, text \in DateTexts :
             (add_event_date(c, u, text, now, "none", FALSE) /\ BadDate(text, now))
             => (Rejected /\ Untouched)
      ]_vars

\* C10 witness: the guided conversation has just rejected a date while the
\* store and the job queue hold an event; it still waits for a date.
C10_Witness ==
    /\ out.op = "add_event_date" /\ out.text = "error"
    /\ Stored(disk) # {}
    /\ jobs # EmptyBag
    /\ \E k \in ConvKeys : conv[k] = DATE

\* the records of a file that from_dict builds, future at t, under a key
\* that is an integer, each as <<key, user id, event>>
GoodFuture(file, t) ==
    {x \in UNION {{<<k, int(k).value, file.raw[k][i]>> : i \in 1..Len(file.raw[k])}
                  : k \in {y \in DOMAIN file.raw : int(y).ok}} :
        ~FromDictRaises(x[3]) /\ from_dict(x[3]).when > t}
\* the keys of a file that hold something recovery cannot use
BadKeys(file) ==
    {k \in DOMAIN file.raw :
        ~int(k).ok \/ \E i \in 1..Len(file.raw[k]) : FromDictRaises(file.raw[k][i])}

\* C11 as claimed: after the recovery pass, whatever bad key or corrupt
\* record the file holds, every well-formed future event of every other
\* owner has its timers.
C11_BadRecordsSkipped ==
    out.op = "_post_init" =>
        \A x \in GoodFuture(disk, now) :
            (BadKeys(disk) \ {x[1]} # {}) =>
                NameCount(jobs, DailyName(x[2], x[3].id)) = 1

\* C11 as amended: a key that is no integer is skipped on its own: when
\* every record of the file can be built, the pass registers the timers of
\* every future event under every integer key, exactly as
\* schedule_event_jobs derives them; one record that from_dict cannot build
\* makes load_all raise: the pass registers nothing and start-up fails.
C11_BadKeySkippedBadRecordFatal ==
    out.op = "_post_init" =>
        IF Loads(disk.raw)
        THEN /\ ~out.raised /\ up
             /\ jobs = SumBags({schedule_event_jobs(EmptyBag, x[2], from_dict(x[3]), now)
                                  : x \in GoodFuture(disk, now)})
             /\ \A x \in GoodFuture(disk, now) :
                   NameCount(jobs, DailyName(x[2], x[3].id)) = 1
        ELSE out.raised /\ ~up /\ jobs = EmptyBag

\* C11 witness: recovery has just run on a file with the key "x" beside two
\* integer keys, and has registered the timers of both owners.
C11_Witness ==
    /\ out.op = "_post_init" /\ ~out.raised
    /\ DOMAIN disk.raw = {"1", "2", "x"}
    /\ \A u \in Users : \E j \in BagToSet(jobs) : j.data.user_id = u

\* the timer names of an event of a user
NamesOf(u, id) ==
    {DailyName(u, id)} \cup {ReminderName(u, id, offset) : offset \in Offsets}

\* C12: in every state reached by creations, firings, stops and recovery
\* runs, every name of the job queue belongs to one job; registering the
\* timers of a stored event again leaves one daily timer of its name and at
\* most one reminder per name, and the jobs of other names as they are;
\* remove_existing_jobs of a name without a job changes nothing.
C12_OneTimerPerName ==
    /\ \A j \in BagToSet(jobs) : NameCount(jobs, j.name) = 1
    /\ \A p \in Stored(disk) : \A u \in OwnersOf(p[1]) :
          LET daily == schedule_daily_counter(jobs, u, p[2], now)
              reminders == schedule_event_reminders(jobs, u, p[2], now)
          IN  /\ NameCount(daily, DailyName(u, p[2].id)) = 1
              /\ \A n \in NamesOf(u, p[2].id) : NameCount(reminders, n) <= 1
              /\ \A j \in BagToSet(jobs) :
                    j.name \notin NamesOf(u, p[2].id) =>
                        /\ j \in BagToSet(daily) /\ daily[j] = jobs[j]
                        /\ j \in BagToSet(reminders) /\ reminders[j] = jobs[j]
    /\ \A u \in Users : \A n \in NamesOf(u, uuid + 1) :
          remove_existing_jobs(jobs, n) = jobs

\* C12 witness: two stored events have their daily timers in the queue, so
\* that registering either again meets its own timer and the other's.
C12_Witness ==
    \E p1, p2 \in Stored(disk) :
        /\ p1[2].id # p2[2].id
        /\ \A p \in {p1, p2} : \E u \in OwnersOf(p[1]) :
              /\ NameCount(jobs, DailyName(u, p[2].id)) = 1
              /\ \E o \in Offsets : NameCount(jobs, ReminderName(u, p[2].id, o)) = 1

\* how many delivered messages satisfy Keep
RECURSIVE CountSent(_, _)
CountSent(msgs, bag) ==
    IF msgs = {} THEN 0
    ELSE LET m == CHOOSE x \in msgs : TRUE
         IN  bag[m] + CountSent(msgs \ {m}, bag)
\* the delivered reminders of an event at an offset
RemindersSent(id, offset) ==
    {m \in BagToSet(sent) : m.callback = "event_reminder" /\ m.id = id /\ m.n = offset}

\* C13: over creations, firings, stops and recovery runs, the reminder of
\* an event at a lead-time offset is delivered at most once.
C13_NoDoubleReminder ==
    \A id \in 1..uuid : \A offset \in Offsets :
        CountSent(RemindersSent(id, offset), sent) <= 1

\* C13 witness: a reminder was delivered, the process stopped and recovery
\* ran at the very clock value of the delivery; the event is still ahead and
\* has timers again, the delivered reminder not among them.
C13_Witness ==
    /\ out.op = "_post_init"
    /\ \E m \in BagToSet(sent) :
          /\ m.callback = "event_reminder" /\ m.at = now
          /\ \E p \in ById(disk, m.id) : \E u \in OwnersOf(p[1]) :
                /\ p[2].when > now
                /\ NameCount(jobs, ReminderName(u, m.id, m.n)) = 0
                /\ NameCount(jobs, ReminderName(u, m.id, 0)) = 1

\* C14: in every state of the store the bot reaches, every owner's list in
\* the persisted file (as written, and as load_all returns it) is sorted
\* ascending by when: the list add_event wrote to and the lists it wrote
\* back as it read them.
C14_StoreSorted ==
    /\ disk.state # "partial"
    /\ LET data == _read(disk).data
       IN  \A k \in DOMAIN data :
              /\ IsSorted(data[k])
              /\ \A i \in 1..Len(data[k]) - 1 :
                    FromIsoFormat(disk.raw[k][i].when) <= FromIsoFormat(disk.raw[k][i + 1].when)

\* C14 witness: an owner's list holds, in front of the event added first,
\* an earlier event that was added after it.
C14_Witness ==
    \E k \in DOMAIN _read(disk).data :
        LET events == _read(disk).data[k]
        IN  /\ Len(events) = 2
            /\ events[1].id > events[2].id
            /\ events[1].when < events[2].when

\* C15: whatever step puts a job into the queue (a creation, a recovery
\* run, a daily countdown staying registered), the job's event is strictly
\* later than the clock value of that step; a creation leaves the event it
\* stored, and a recovery run every stored event, without any timer when
\* its when <= now, and no later step gives it one.
C15_TimersOnlyForFuture ==
    [][/\ \A j \in BagToSet(jobs') \ BagToSet(jobs) : j.data.event.when > now'
       /\ \A j \in BagToSet(jobs') :
             j \in BagToSet(jobs) => jobs'[j] <= jobs[j]
       /\ Registers =>
             \A p \in Stored(disk') :
                 (p[2].when <= now' /\ (out'.op = "_post_init" \/ p[2].id = out'.id))
                 => JobsOf(jobs', p[2].id) = {}
       /\ \A p \in Stored(disk) :
             (p[2].when <= now /\ JobsOf(jobs, p[2].id) = {}) => JobsOf(jobs', p[2].id) = {}
      ]_vars

\* C15 witness: recovery has just run on a store with an event that has
\* passed and an event still ahead: the first has no timer, the second has.
C15_Witness ==
    /\ out.op = "_post_init"
    /\ \E p, f \in Stored(disk) :
          /\ p[2].when <= now /\ JobsOf(jobs, p[2].id) = {}
          /\ f[2].when > now /\ JobsOf(jobs, f[2].id) # {}

\* the delivered countdown notifications of an event on a calendar day
CountdownsSent(id, day) ==
    {m \in BagToSet(sent) : m.callback = "daily_countdown" /\ m.id = id /\ DateOf(m.at) = day}

\* C16: over creations, firings, stops and recovery runs, every delivered
\* countdown notification was delivered at 09:00, and an event has at most
\* one of them on a calendar day.
C16_OncePerDayAtNine ==
    /\ \A m \in BagToSet(sent) :
          m.callback = "daily_countdown" => m.at % DAY = DAILY_REMINDER_TIME
    /\ \A id \in 1..uuid : \A day \in 0..DateOf(now) :
          CountSent(CountdownsSent(id, day), sent) <= 1

\* C16 witness: the countdown of an event was delivered at 09:00, the
\* process stopped and recovery ran while the clock still read 09:00: the
\* event's daily timer is registered again, for 09:00 of the next day.
C16_Witness ==
    /\ out.op = "_post_init"
    /\ \E m \in BagToSet(sent) :
          /\ m.callback = "daily_countdown" /\ m.at = now
          /\ \E j \in JobsOf(jobs, m.id) :
                j.callback = "daily_countdown" /\ j.next = now + DAY

\* C17: in every state, every job of the queue carries an event that is in
\* the persisted store, under the key of the job's user; a creation whose
\* add_event raised has left no timer for its event.
C17_PersistBeforeRegister ==
    /\ \A j \in BagToSet(jobs) :
          <<str(j.data.user_id), j.data.event>> \in Stored(disk)
    /\ out.raised =>
          /\ out.id \notin StoredIds(disk)
          /\ \A j \in BagToSet(jobs) : j.data.event.id # out.id

\* C17 witness: a creation has just failed in add_event while the timers of
\* an event stored earlier are in the queue; the new event has none.
C17_Witness ==
    /\ out.op = "add_event_command" /\ out.raised /\ up
    /\ out.id = uuid
    /\ jobs # EmptyBag
    /\ \E p \in Stored(disk) : JobsOf(jobs, p[2].id) # {}
    /\ JobsOf(jobs, out.id) = {}

\* C18: while the process is up (recovery has completed, creations have
\* returned or failed, timers have run), every stored event with when > now
\* has exactly one daily countdown job, carrying that event, and a daily
\* run for an event still ahead leaves its job registered.
C18_FutureEventsHaveDaily ==
    up => \A p \in Stored(disk) : \A u \in OwnersOf(p[1]) :
            p[2].when > now =>
                /\ NameCount(jobs, DailyName(u, p[2].id)) = 1
                /\ \A j \in get_jobs_by_name(jobs, DailyName(u, p[2].id)) :
                      /\ j.callback = "daily_countdown"
                      /\ j.data.event = p[2]
                      /\ j.next >= now

\* C18 witness: the daily countdown of an event has run at 09:00 with the
\* event still ahead, and its job is registered for the next day.
C18_Witness ==
    /\ up /\ out.op = "daily_countdown" /\ out.text = "days_left"
    /\ \E p \in ById(disk, out.id) : \E u \in OwnersOf(p[1]) :
          /\ p[2].when > now
          /\ \E j \in get_jobs_by_name(jobs, DailyName(u, out.id)) : j.next = now + DAY

\* the zero-offset reminder jobs of an event in the queue
ZeroJobs(id) ==
    {j \in BagToSet(jobs) :
        j.callback = "event_reminder" /\ j.data.event.id = id /\ j.data.offset = 0}

\* C19: a creation or recovery step that runs schedule_event_jobs for an
\* event with when > now registers its zero-offset reminder, once, for
\* event.when; only such a step registers it; when it runs, the clock reads
\* event.when, the "starting now" message is sent and the job has left the
\* queue; and with a clock that goes on and a job queue that runs what is
\* due, a registered zero-offset reminder leads to its run, unless the
\* process stops before.
C19_FinalReminderFires ==
    /\ [][/\ Registers =>
               \A ue \in FutureOwned(disk', now') :
                   (out'.op = "_post_init" \/ ue[2].id = out'.id) =>
                       \E j \in BagToSet(jobs') :
                           /\ j.name = ReminderName(ue[1], ue[2].id, 0)
                           /\ j.callback = "event_reminder" /\ j.data.offset = 0
                           /\ j.next = ue[2].when
                           /\ NameCount(jobs', j.name) = 1
          /\ \A j \in BagToSet(jobs') \ BagToSet(jobs) :
                (j.callback = "event_reminder" /\ j.data.offset = 0) =>
                    (Registers /\ (out'.op = "_post_init" \/ j.data.event.id = out'.id))
          /\ \A j \in BagToSet(jobs) :
                (event_reminder(j, FALSE) /\ j.data.offset = 0) =>
                    /\ now = j.data.event.when
                    /\ out'.text = "starts_now"
                    /\ NameCount(jobs', j.name) = 0
         ]_vars
    /\ \A id \in 1..MaxEvents :
          (ZeroJobs(id) # {}) ~>
              \/ out.op = "event_reminder" /\ out.id = id /\ out.n = 0 /\ ZeroJobs(id) = {}
              \/ ~up

\* C19 witness: the zero-offset reminder of an event has just run, at the
\* event's moment, in a process that registered it at the creation; the
\* event has no reminder left in the queue.
C19_Witness ==
    /\ up /\ out.op = "event_reminder" /\ out.text = "starts_now"
    /\ \E p \in ById(disk, out.id) : p[2].when = now
    /\ ZeroJobs(out.id) = {}
    /\ \A j \in JobsOf(jobs, out.id) : j.callback = "daily_countdown"

\* C20: in the guided conversation a date that is unparsable or not in the
\* future keeps the conversation in DATE and creates no event; a cancel
\* step ends the conversation and creates no event; an event created from
\* DATE carries the title entered in the TITLE step of its conversation,
\* which is a title sent in the chat of the event.
C20_ConversationTitle ==
    [][/\ \A c \in AllChats, u \in Guided, text \in DateTexts :
             (/\ add_event_date(c, u, text, now, "none", FALSE)
              /\ lower(text.fmt) # "otmena"
              /\ BadDate(text, now))
             => (conv'[<<c, u>>] = DATE /\ Untouched)
       /\ \A c \in AllChats, u \in Guided :
             (\/ cancel_add(c, u)
              \/ add_event_title(c, u, "Otmena")
              \/ \E text \in DateTexts :
                    lower(text.fmt) = "otmena" /\ add_event_date(c, u, text, now, "none", FALSE))
             => (conv'[<<c, u>>] = END /\ Untouched)
       /\ (out'.op = "add_event_date" /\ out'.text = "added") =>
             \A p \in ById(disk', out'.id) :
                 /\ p[2].title # DEFAULT_TITLE
                 /\ p[2].title \in ChatTitles(p[2].chat_id)
      ]_vars

====
